---- MODULE Spec2Model ----
(***************************************************************************)
(* A model of pindl.py, the Pinterest board downloader: the file name      *)
(* codec (create_pin_filename / get_existing_pins), the per-board download *)
(* loop with its checkpoint file and worker pool (download_board), and the *)
(* outer driver (main / download_all_my_boards).                           *)
(*                                                                         *)
(* Strings are sequences of characters; a character is a one-element       *)
(* token such as "a" or "U+023A" (a non-ASCII code point).                 *)
(***************************************************************************)
EXTENDS Integers, Sequences, FiniteSets, TLC

\* ------------------------------------------------------------------------
\* Characters and their Unicode properties (what str.encode, str.lower,
\* str.translate, str.split and str.isalnum do to them).
\* ------------------------------------------------------------------------

ELLIPSIS == "U+2026"

AsciiChars ==
  {"a", "b", "c", "d", "A", "1", "2", "3", "4", ".", " ", "_", "-", "'",
   "/", "\\", "\"", "?", ":", "j", "p", "g", "n"}

TwoByteChars == {"U+00E9", "U+023A"}

ThreeByteChars == {ELLIPSIS, "U+2C65", "U+65E5", "U+3000"}

FourByteChars == {"U+1F600"}

Chars == AsciiChars \cup TwoByteChars \cup ThreeByteChars \cup FourByteChars

\* len(c.encode()): the UTF-8 width of one character
CharBytes(c) ==
  IF c \in AsciiChars THEN 1
  ELSE IF c \in TwoByteChars THEN 2
  ELSE IF c \in ThreeByteChars THEN 3
  ELSE 4

\* c.lower(): U+023A (2 bytes) lowercases to U+2C65 (3 bytes)
CharLower(c) ==
  IF c = "A" THEN "a"
  ELSE IF c = "U+023A" THEN "U+2C65"
  ELSE c

\* c.isspace(), as str.split() without arguments uses it
IsSpace(c) == c \in {" ", "U+3000"}

\* c.isalnum()
IsAlnumChar(c) ==
  c \in {"a", "b", "c", "d", "A", "1", "2", "3", "4", "j", "p", "g", "n",
         "U+00E9", "U+023A", "U+2C65", "U+65E5"}

\* _FILENAME_TRANS: \ / " are replaced, < > : | ? * are deleted
TransDeleted == {"?", ":"}

TransChar(c) ==
  IF c \in {"\\", "/"} THEN "-"
  ELSE IF c = "\"" THEN "'"
  ELSE c

\* ------------------------------------------------------------------------
\* String helpers
\* ------------------------------------------------------------------------

\* s repeated: n copies of the character c
Rep(c, n) == [i \in 1..n |-> c]

\* len(s.encode())
RECURSIVE ByteLen(_)
ByteLen(s) ==
  IF s = <<>> THEN 0 ELSE CharBytes(Head(s)) + ByteLen(Tail(s))

\* s[:k] for k >= 0
Take(s, k) == SubSeq(s, 1, IF k < Len(s) THEN k ELSE Len(s))

\* s.lstrip(set)
LStrip(s, set) ==
  LET keep == {i \in 1..Len(s) : s[i] \notin set}
  IN  IF keep = {} THEN <<>>
      ELSE SubSeq(s, CHOOSE i \in keep : \A j \in keep : i <= j, Len(s))

\* s.rstrip(set)
RStrip(s, set) ==
  LET keep == {i \in 1..Len(s) : s[i] \notin set}
  IN  IF keep = {} THEN <<>>
      ELSE SubSeq(s, 1, CHOOSE i \in keep : \A j \in keep : i >= j)

\* s.rfind(c), 1-based; 0 when c does not occur
RFind(s, c) ==
  LET at == {i \in 1..Len(s) : s[i] = c}
  IN  IF at = {} THEN 0 ELSE CHOOSE i \in at : \A j \in at : i >= j

\* s.lower()
Lower(s) == [i \in 1..Len(s) |-> CharLower(s[i])]

\* s.translate(_FILENAME_TRANS)
Translate(s) ==
  LET kept == SelectSeq(s, LAMBDA c : c \notin TransDeleted)
  IN  [i \in 1..Len(kept) |-> TransChar(kept[i])]

\* '_'.join(s.split()): whitespace runs become one underscore, leading and
\* trailing whitespace disappears
RECURSIVE JoinSplit(_)
JoinSplit(s) ==
  IF s = <<>> THEN <<>>
  ELSE IF IsSpace(Head(s)) THEN JoinSplit(Tail(s))
  ELSE LET rest == Tail(s)
       IN  IF rest = <<>> THEN <<Head(s)>>
           ELSE IF IsSpace(Head(rest))
                THEN LET more == JoinSplit(rest)
                     IN  IF more = <<>> THEN <<Head(s)>>
                         ELSE <<Head(s), "_">> \o more
                ELSE <<Head(s)>> \o JoinSplit(rest)

\* s.isalnum()
IsAlnum(s) == s # <<>> /\ \A i \in 1..Len(s) : IsAlnumChar(s[i])

\* encoded[:n].decode(errors='ignore'): the longest prefix of whole
\* characters that fits in n bytes (a split trailing character is dropped)
DecodeIgnore(s, n) ==
  LET fits == {k \in 0..Len(s) : ByteLen(SubSeq(s, 1, k)) <= n}
  IN  SubSeq(s, 1, CHOOSE k \in fits : \A j \in fits : k >= j)

\* ------------------------------------------------------------------------
\* The file name codec
\* ------------------------------------------------------------------------

NOTE_LIMIT == 50

ELLIPSIS_BYTE_LEN == CharBytes(ELLIPSIS)

PATH_BUDGET == 254

universal_filename(s) == RStrip(Translate(s), {".", " "})

limit_string(s, length) ==
  IF Len(s) > length THEN Take(s, length - 1) \o <<ELLIPSIS>> ELSE s

limit_string_bytes(s, byte_length) ==
  IF ByteLen(s) <= byte_length THEN s
  ELSE IF byte_length < ELLIPSIS_BYTE_LEN THEN <<>>
  ELSE IF byte_length = ELLIPSIS_BYTE_LEN THEN <<ELLIPSIS>>
  ELSE DecodeIgnore(s, byte_length - ELLIPSIS_BYTE_LEN) \o <<ELLIPSIS>>

create_pin_filename(note0, id, image_ext) ==
  LET note1 == LStrip(note0, {"."})
  IN  IF note1 = <<>> THEN id \o image_ext
      ELSE LET note2 == limit_string(note1, NOTE_LIMIT)
               note3 == limit_string_bytes(
                          note2, PATH_BUDGET - Len(id) - Len(image_ext))
               note4 == universal_filename(note3)
               note5 == JoinSplit(Lower(note4))
               note6 == IF note5 # <<>> THEN note5 \o <<"_">> ELSE note5
           IN  note6 \o id \o image_ext

\* os.path.splitext on a bare file name: <<root, ext>>
splitext(p) ==
  LET dot == RFind(p, ".")
  IN  IF dot > 0 /\ \E i \in 1..(dot - 1) : p[i] # "."
      THEN <<SubSeq(p, 1, dot - 1), SubSeq(p, dot, Len(p))>>
      ELSE <<p, <<>>>>

\* faulty variant of decode_pin_id: the text after the first underscore of
\* the stem instead of the last
decode_pin_id_first(file_name) ==
  LET name == splitext(file_name)[1]
      us == {i \in 1..Len(name) : name[i] = "_"}
      first == IF us = {} THEN 0
               ELSE CHOOSE i \in us : \A j \in us : i <= j
  IN  SubSeq(name, first + 1, Len(name))

\* the pin id get_existing_pins reads out of a file name
decode_pin_id(file_name) ==
  LET name == splitext(file_name)[1]
  IN  SubSeq(name, RFind(name, "_") + 1, Len(name))

\* ------------------------------------------------------------------------
\* The world outside the program: the boards the API serves, the command
\* lines the tool is started with
\* ------------------------------------------------------------------------

None == "None"

ALL == "all"

Boards == {"u/b1", "u/b2"}

URL_B2 == "https://www.pinterest.com/u/b2/"

\* the directories (and sibling checkpoint files) told apart below out_dir:
\* one per board path and one named like the bare id of a board
DirNames == Boards \cup {"id1"}

\* the board a reference (path or bare id) names at the API
BoardOfRef(ref) == IF ref \in {"u/b1", "id1"} THEN "u/b1" ELSE "u/b2"

\* the "id" and "url" fields of the board metadata
board_info(ref) ==
  LET b == BoardOfRef(ref)
  IN  IF b = "u/b1"
      THEN [id |-> "id1", url |-> "https://www.pinterest.com/u/b1/"]
      ELSE [id |-> "id2", url |-> URL_B2]

\* urllib.parse.unquote(urllib.parse.urlsplit(s).path.strip('/'))
UrlPath(s) ==
  IF s = "https://www.pinterest.com/u/b1/" THEN "u/b1"
  ELSE IF s = URL_B2 THEN "u/b2"
  ELSE s

MaxPages == 2

NumPages(b) == IF b = "u/b1" THEN MaxPages ELSE 1

\* how many pins the API puts on page i of board b (at most _PINS_PER_PAGE)
PageSize(b, i) == IF b = "u/b1" /\ i = 1 THEN 2 ELSE 1

Digit == <<"1", "2", "3", "4">>

\* the pin ids on page i of board b, in API order
PinsOnPage(b, i) ==
  [j \in 1..PageSize(b, i) |->
     <<(IF b = "u/b1" THEN "1" ELSE "2"), Digit[i], Digit[j]>>]

AllPins ==
  UNION {{PinsOnPage(b, i)[j] : j \in 1..PageSize(b, i)} :
           <<b, i>> \in {<<bb, ii>> \in Boards \X (1..MaxPages) :
                           ii <= NumPages(bb)}}

\* the cursor the API returns together with page i (null on the last page)
CursorTok == <<"c1", "c2", "c3", "c4">>

CursorOfPage(b, i) == IF i < NumPages(b) THEN CursorTok[i] ELSE None

\* the page a request with the given cursor is answered with
PageOfCursor(c) ==
  IF c = None THEN 1 ELSE 1 + CHOOSE i \in 1..Len(CursorTok) : CursorTok[i] = c

\* pin['image']['original']['url'] ends in .jpg for every pin of the model;
\* the second pin of a page is really a PNG
UrlExt(p) == <<".", "j", "p", "g">>

ImageType(p) == IF p[3] = "2" THEN "png" ELSE "jpeg"

\* lines 216-224: the extension download_pin saves the image under
image_ext(p) ==
  IF UrlExt(p) = <<".", "j", "p", "g">> /\ ImageType(p) \notin {"None", "jpeg"}
  THEN <<".", "p", "n", "g">>
  ELSE UrlExt(p)

\* the note a pin carries at first (the second pin of a page has none), the
\* note it carries after its owner edited it, and the pins that get edited
InitialNote(p) == IF p[3] = "2" THEN <<>> ELSE <<"A", " ", "b">>

EditedNote(p) == <<".", "c", "/", "d">>

EditablePins == {<<"1", "1", "2">>, <<"1", "2", "1">>}

\* what the API can answer a call with
ApiOutcomes == {"ok", "URLError", "JSONDecodeError"}

MyBoardsResponses == {<<>>, <<"u/b1", "u/b2">>}

TaskOutcomes == {"ok", "fetch_error", "write_error"}

\* command lines
NoFile == <<"no file">>

\* positional board references with the lines of the --batch-file
Invocations ==
  {[boards |-> <<>>, batch_file |-> NoFile],
   [boards |-> <<>>, batch_file |-> <<"">>],
   [boards |-> <<>>, batch_file |-> <<"u/b1", "">>],
   [boards |-> <<"id1">>, batch_file |-> NoFile],
   [boards |-> <<ALL>>, batch_file |-> NoFile],
   [boards |-> <<"u/b1", URL_B2>>, batch_file |-> NoFile],
   [boards |-> <<ALL>>, batch_file |-> <<URL_B2>>]}

MaxThreads == 2

\* --access-token with the state of the three pin_token files
TokenSetups ==
  {[access_token |-> "tok", token_files |-> <<"missing", "missing", "missing">>],
   [access_token |-> "", token_files |-> <<"empty", "missing", "token">>],
   [access_token |-> "", token_files |-> <<"missing", "empty", "empty">>]}

ArgsOf(i, n, t) ==
  [boards |-> i.boards, batch_file |-> i.batch_file, threads |-> n,
   access_token |-> t.access_token, token_files |-> t.token_files]

\* the command lines: every invocation with every valid thread count and
\* a token, and two invocations with every token setup and a thread count
\* around the minimum
Args ==
  {ArgsOf(i, n, t) :
     i \in Invocations, n \in 1..MaxThreads,
     t \in {s \in TokenSetups : s.access_token # ""}}
  \cup
  {ArgsOf(i, n, t) :
     i \in {j \in Invocations : j.batch_file = NoFile /\ Len(j.boards) <= 1},
     n \in 0..1, t \in TokenSetups}

\* no command line: no process is between parse_args and the token lookup
NoArgs == ArgsOf([boards |-> <<>>, batch_file |-> NoFile], 0,
                 [access_token |-> "", token_files |-> <<>>])

PINS_PER_PAGE == 100

NoCkpt == [exists |-> FALSE, next_page_cursor |-> None, num_complete_pages |-> 0]

VARIABLES
  note, dirs, files, ckpt,          \* what persists between processes
  pc, refs, in_all, all_rest, num_threads, \* the running process
  board, page_num, pin_num, existing_pins, url, pins, cursor, new_pins,
  nsub, tasks, early, done_q, consumed, num_errors,  \* download_board's frame
  args,                             \* main's args until the token is found
  exit, attempted, listed, net,            \* history of the process
  clean, g_status, g_dir, g_ckpt0, g_ref, g_fin, g_cons, g_reqs, g_first, g_nums, g_page,
  g_page_ckpt, g_err_pages, g_done_pages, g_fsops,  \* history of the board run
  codec

persistV == <<note, dirs, files, ckpt, clean>>

procV ==
  <<pc, refs, in_all, all_rest, num_threads, args, exit, attempted, listed,
    net>>

frameV ==
  <<board, page_num, pin_num, existing_pins, url, pins, cursor, new_pins,
    nsub, tasks, early, done_q, consumed, num_errors>>

poolV == <<new_pins, nsub, tasks, early, done_q, consumed, num_errors>>

ghostV ==
  <<g_status, g_dir, g_ckpt0, g_ref, g_fin, g_cons, g_reqs, g_first, g_nums, g_page, g_page_ckpt,
    g_err_pages, g_done_pages, g_fsops>>

vars == <<persistV, procV, frameV, ghostV, codec>>

\* ------------------------------------------------------------------------
\* Initial state: nothing downloaded yet, no process running
\* ------------------------------------------------------------------------

CodecIdle == [pc |-> "idle", note |-> <<>>, id |-> <<>>, ext |-> <<>>,
              name |-> <<>>, pin_id |-> <<>>]

GhostInit ==
  /\ g_status = "none"
  /\ g_dir = ""
  /\ g_ckpt0 = NoCkpt
  /\ g_ref = ""
  /\ g_fin = <<>>
  /\ g_cons = <<>>
  /\ g_reqs = <<>>
  /\ g_first = "unset"
  /\ g_nums = {}
  /\ g_page = 0
  /\ g_page_ckpt = NoCkpt
  /\ g_err_pages = {}
  /\ g_done_pages = {}
  /\ g_fsops = {}

FrameInit ==
  /\ board = ""
  /\ page_num = 0
  /\ pin_num = 0
  /\ existing_pins = <<>>
  /\ url = None
  /\ pins = <<>>
  /\ cursor = None
  /\ new_pins = <<>>
  /\ nsub = 0
  /\ tasks = <<>>
  /\ early = {}
  /\ done_q = <<>>
  /\ consumed = {}
  /\ num_errors = 0

MainInit ==
  /\ note = [p \in AllPins |-> InitialNote(p)]
  /\ dirs = {}
  /\ files = [b \in DirNames |-> {}]
  /\ ckpt = [b \in DirNames |-> NoCkpt]
  /\ clean = [b \in DirNames |-> {}]
  /\ pc = "off"
  /\ refs = <<>>
  /\ in_all = FALSE
  /\ all_rest = <<>>
  /\ num_threads = 0
  /\ exit = "none"
  /\ args = NoArgs
  /\ attempted = {}
  /\ listed = {}
  /\ net = FALSE
  /\ FrameInit
  /\ GhostInit

Init == MainInit /\ codec = CodecIdle

\* ------------------------------------------------------------------------
\* Control transfer
\* ------------------------------------------------------------------------

ClearPool ==
  /\ new_pins' = <<>>
  /\ nsub' = 0
  /\ tasks' = <<>>
  /\ early' = {}
  /\ done_q' = <<>>
  /\ consumed' = {}
  /\ num_errors' = 0

\* download_board's frame is gone once it returns or an exception leaves it
ClearFrame ==
  /\ board' = ""
  /\ page_num' = 0
  /\ pin_num' = 0
  /\ existing_pins' = <<>>
  /\ url' = None
  /\ pins' = <<>>
  /\ cursor' = None
  /\ ClearPool

ClearGhost ==
  /\ g_status' = "none"
  /\ g_dir' = ""
  /\ g_ckpt0' = NoCkpt
  /\ g_ref' = ""
  /\ g_fin' = <<>>
  /\ g_cons' = <<>>
  /\ g_reqs' = <<>>
  /\ g_first' = "unset"
  /\ g_nums' = {}
  /\ g_page' = 0
  /\ g_page_ckpt' = NoCkpt
  /\ g_err_pages' = {}
  /\ g_done_pages' = {}
  /\ g_fsops' = {}

\* the process ends: sys.exit, parser.error, an uncaught exception, or the
\* end of main
ProcEnd(status) ==
  /\ pc' = "off"
  /\ refs' = <<>>
  /\ in_all' = FALSE
  /\ all_rest' = <<>>
  /\ num_threads' = 0
  /\ exit' = status

\* which exceptions main's "except URLError" (line 511) catches
caught_by_main(exc) == exc = "URLError"

\* an exception leaves api_call: it unwinds download_board and
\* download_all_my_boards (neither has a handler) up to main's loop
Raise(exc) ==
  /\ IF caught_by_main(exc)
     THEN /\ pc' = "main_loop"
          /\ in_all' = FALSE
          /\ all_rest' = <<>>
          /\ UNCHANGED <<refs, num_threads, exit>>
     ELSE ProcEnd(exc)
  /\ ClearFrame

\* download_board returns to its caller
Return ==
  /\ pc' = IF in_all THEN "all_loop" ELSE "main_loop"
  /\ UNCHANGED <<refs, in_all, all_rest, num_threads, exit>>
  /\ ClearFrame

\* ------------------------------------------------------------------------
\* main and download_all_my_boards
\* ------------------------------------------------------------------------

\* parse_args: lines 449-453
usage_error(a) ==
  (a.batch_file = NoFile /\ a.boards = <<>>) \/ a.threads < 1

\* faulty variant of has_token: the empty token is used when none is found
has_token_any(a) == TRUE

\* lines 465-491: is an access token found
has_token(a) ==
  a.access_token # "" \/ \E i \in 1..3 : a.token_files[i] = "token"

\* lines 495-500: positional boards, then the non-empty batch file lines
board_refs(a) ==
  IF a.batch_file = NoFile THEN a.boards
  ELSE a.boards \o SelectSeq(a.batch_file, LAMBDA l : l # "")

StartProcess ==
  /\ pc = "off"
  /\ \E a \in Args :
       /\ args' = a
       /\ IF usage_error(a) THEN ProcEnd("usage_error")
          ELSE /\ pc' = "token"
               /\ exit' = "running"
               /\ UNCHANGED <<refs, in_all, all_rest, num_threads>>
  /\ attempted' = {}
  /\ listed' = {}
  /\ net' = FALSE
  /\ ClearGhost
  /\ UNCHANGED <<persistV, frameV, codec>>

\* lines 465-500: the access token, then the board references. From here on
\* refs and num_threads hold what the process still needs of args
FindToken ==
  /\ pc = "token"
  /\ IF ~has_token(args)
     THEN ProcEnd("no_token") /\ UNCHANGED args
     ELSE /\ pc' = "main_loop"
          /\ refs' = board_refs(args)
          /\ num_threads' = args.threads
          /\ args' = NoArgs
          /\ UNCHANGED <<in_all, all_rest, exit>>
  /\ UNCHANGED <<persistV, attempted, listed, net, frameV, ghostV, codec>>

\* lines 502-510: the next board reference of main's loop
MainNext ==
  /\ pc = "main_loop"
  /\ IF refs = <<>>
     THEN ProcEnd("ok") /\ UNCHANGED <<board, listed>>
     ELSE /\ refs' = Tail(refs)
          /\ IF Head(refs) = ALL
             THEN pc' = "all_list" /\ UNCHANGED <<board, listed>>
             ELSE /\ pc' = "board_info"
                  /\ board' = UrlPath(Head(refs))
                  /\ listed' = listed \cup {BoardOfRef(UrlPath(Head(refs)))}
          /\ UNCHANGED <<in_all, all_rest, num_threads, exit>>
  /\ ClearGhost
  /\ UNCHANGED <<persistV, args, net, attempted, page_num, pin_num,
                 existing_pins, url,
                 pins, cursor, poolV, codec>>

\* lines 375-384: the list of the user's boards
AllList ==
  /\ pc = "all_list"
  /\ \E out \in ApiOutcomes :
       IF out # "ok"
       THEN Raise(out) /\ UNCHANGED listed
       ELSE \E boards \in MyBoardsResponses :
              /\ listed' = listed \cup {boards[i] : i \in 1..Len(boards)}
              /\ IF boards = <<>>
                 THEN pc' = "main_loop" /\ UNCHANGED <<in_all, all_rest>>
                 ELSE /\ pc' = "all_loop"
                      /\ in_all' = TRUE
                      /\ all_rest' = [i \in 1..Len(boards) |->
                                        board_info(boards[i]).url]
              /\ UNCHANGED <<refs, num_threads, exit, frameV>>
  /\ net' = TRUE
  /\ UNCHANGED <<persistV, args, attempted, ghostV, codec>>

\* lines 386-392: the next board of the user's list
AllNext ==
  /\ pc = "all_loop"
  /\ IF all_rest = <<>>
     THEN pc' = "main_loop" /\ in_all' = FALSE /\ UNCHANGED <<board, all_rest>>
     ELSE /\ pc' = "board_info"
          /\ board' = UrlPath(Head(all_rest))
          /\ all_rest' = Tail(all_rest)
          /\ UNCHANGED in_all
  /\ ClearGhost
  /\ UNCHANGED <<persistV, refs, num_threads, args, net, exit, attempted,
                 listed,
                 page_num, pin_num, existing_pins, url, pins, cursor, poolV,
                 codec>>

\* ------------------------------------------------------------------------
\* download_board
\* ------------------------------------------------------------------------

\* get_existing_pins: one file name per pin id found in the directory; when
\* two files decode to the same id the one scanned last wins, and os.walk
\* fixes no order
ExistingPinMaps(fs) ==
  LET ids == {id \in {decode_pin_id(f) : f \in fs} : IsAlnum(id)}
  IN  {m \in [ids -> fs] : \A id \in ids : decode_pin_id(m[id]) = id}

\* lines 281-284: the directory of the board, relative to out_dir
\* faulty variant of board_dir: the directory is named after the reference
\* as given
board_dir_raw(ref) == ref

\* lines 281-284: the directory of a board below out_dir
board_dir(ref) ==
  IF ref = board_info(ref).id THEN UrlPath(board_info(ref).url) ELSE ref

\* lines 288-295 and 301: where a run starts, given the checkpoint it finds
resume_page_num(page_info) ==
  IF page_info.exists THEN page_info.num_complete_pages ELSE 0

\* faulty variant of resume_cursor: the checkpoint's cursor is ignored and
\* every run starts at the first page
resume_cursor_restart(page_info) == None

resume_cursor(page_info) ==
  IF page_info.exists THEN page_info.next_page_cursor ELSE None

\* lines 263-298: board metadata, directory, checkpoint, existing pins
BoardInfo ==
  /\ pc = "board_info"
  /\ attempted' = attempted \cup {BoardOfRef(board)}
  /\ net' = TRUE
  /\ g_ref' = board
  /\ UNCHANGED args
  /\ \E out \in ApiOutcomes :
       IF out # "ok"
       THEN /\ Raise(out)
            /\ g_status' = out
            /\ UNCHANGED <<dirs, g_dir, g_ckpt0>>
       ELSE LET b == board_dir(board)
                page_info == ckpt[b]
            IN  /\ board' = b
                /\ dirs' = dirs \cup {b}
                /\ page_num' = resume_page_num(page_info)
                /\ pin_num' = resume_page_num(page_info) * PINS_PER_PAGE
                /\ existing_pins' \in ExistingPinMaps(files[b])
                /\ url' = resume_cursor(page_info)
                /\ pc' = "fetch"
                /\ g_status' = "running"
                /\ g_dir' = b
                /\ g_ckpt0' = page_info
                /\ UNCHANGED <<pins, cursor, poolV, refs, in_all, all_rest,
                               num_threads, exit>>
  /\ UNCHANGED <<note, files, ckpt, clean, listed, g_fin, g_cons, g_reqs,
                 g_first,
                 g_nums, g_page, g_page_ckpt, g_err_pages, g_done_pages,
                 g_fsops, codec>>

\* faulty variant of is_new_pin: the existing-pin index is ignored and every
\* pin of a page is downloaded
is_new_pin_always(pin, ex) == TRUE

\* faulty variant of old_extension: a renamed file gets the extension of a
\* JPEG whatever the old file's extension
old_extension_jpg(old_file_name) == ".jpg"

\* line 308: is the pin missing from the existing-pin index
is_new_pin(pin, ex) == pin \notin DOMAIN ex

\* line 313: the extension the renamed file keeps
old_extension(old_file_name) == splitext(old_file_name)[2]

\* lines 306-325: the pins of a page against the existing-pin index.
\* st = [files, new_pins, ops, error]; error: os.rename found no file
RECURSIVE reconcile(_, _, _)
reconcile(ps, ex, st) ==
  IF ps = <<>> \/ st.error THEN st
  ELSE LET pin == Head(ps)
       IN  IF is_new_pin(pin, ex)
           THEN reconcile(Tail(ps), ex,
                          [st EXCEPT !.new_pins = Append(@, pin)])
           ELSE LET old_file_name == ex[pin]
                    new_file_name ==
                      create_pin_filename(
                        note[pin], pin, old_extension(old_file_name))
                IN  IF new_file_name = old_file_name
                    THEN reconcile(Tail(ps), ex, st)
                    ELSE IF old_file_name \notin st.files
                    THEN [st EXCEPT !.error = TRUE]
                    ELSE reconcile(
                           Tail(ps), ex,
                           [st EXCEPT
                              !.files = (@ \ {old_file_name})
                                          \cup {new_file_name},
                              !.ops = @ \cup
                                {[op |-> "rename", pin |-> pin,
                                  old |-> old_file_name,
                                  new |-> new_file_name]}])

\* lines 201-204 and 302-337: one page is requested and reconciled
FetchPage ==
  /\ pc = "fetch"
  /\ g_reqs' = Append(g_reqs, PageOfCursor(url))
  /\ g_first' = IF g_first = "unset" THEN url ELSE g_first
  /\ \E out \in ApiOutcomes :
       IF out # "ok"
       THEN /\ Raise(out)
            /\ g_status' = out
            /\ UNCHANGED <<files, g_nums, g_page, g_page_ckpt, g_fsops>>
       ELSE LET i == PageOfCursor(url)
                r == reconcile(PinsOnPage(board, i), existing_pins,
                               [files |-> files[board], new_pins |-> <<>>,
                                ops |-> {}, error |-> FALSE])
            IN  IF r.error
                THEN /\ Raise("FileNotFoundError")
                     /\ g_status' = "FileNotFoundError"
                     /\ files' = [files EXCEPT ![board] = r.files]
                     /\ g_fsops' = g_fsops \cup r.ops
                     /\ UNCHANGED <<g_nums, g_page, g_page_ckpt>>
                ELSE /\ pins' = PinsOnPage(board, i)
                     /\ cursor' = CursorOfPage(board, i)
                     /\ page_num' = page_num + 1
                     /\ files' = [files EXCEPT ![board] = r.files]
                     /\ new_pins' = r.new_pins
                     /\ pin_num' = pin_num + Len(PinsOnPage(board, i))
                                     - Len(r.new_pins)
                     /\ nsub' = 0
                     /\ tasks' = <<>>
                     /\ early' = {}
                     /\ done_q' = <<>>
                     /\ consumed' = {}
                     /\ num_errors' = 0
                     /\ pc' = IF r.new_pins # <<>> THEN "submit"
                              ELSE "page_end"
                     /\ g_nums' = g_nums \cup {<<page_num + 1, i>>}
                     /\ g_page' = i
                     /\ g_page_ckpt' = ckpt[board]
                     /\ g_fsops' = g_fsops \cup r.ops
                     /\ UNCHANGED <<board, existing_pins, url, refs, in_all,
                                    all_rest, num_threads, exit, g_status>>
  /\ net' = TRUE
  /\ UNCHANGED <<note, dirs, ckpt, clean, args, attempted, listed, g_dir,
                 g_ckpt0, g_ref, g_fin, g_cons, g_err_pages, g_done_pages, codec>>

\* lines 335-337: executor.submit for the next new pin
Submit ==
  /\ pc = "submit"
  /\ nsub < Len(new_pins)
  /\ tasks' = tasks @@ (new_pins[nsub + 1] :> "queued")
  /\ nsub' = nsub + 1
  /\ g_fsops' = g_fsops \cup
       {[op |-> "submit", pin |-> new_pins[nsub + 1], old |-> <<>>,
         new |-> <<>>]}
  /\ UNCHANGED <<persistV, procV, board, page_num, pin_num, existing_pins,
                 url, pins, cursor, new_pins, early, done_q, consumed,
                 num_errors, g_status, g_dir, g_ckpt0, g_ref, g_fin, g_cons, g_reqs, g_first,
                 g_nums, g_page, g_page_ckpt, g_err_pages, g_done_pages,
                 codec>>

\* faulty variant of Finished: a future counts as done once its task runs
Finished_started == {"ok", "error", "running"}

\* the states of a future that is done
Finished == {"ok", "error"}

\* line 339: as_completed takes the futures that are already done (it
\* yields those first, in no particular order) and waits for the others
BeginCollect ==
  /\ pc = "submit"
  /\ nsub = Len(new_pins)
  /\ early' = {p \in DOMAIN tasks : tasks[p] \in Finished}
  /\ pc' = "collect"
  /\ UNCHANGED <<persistV, refs, in_all, all_rest, num_threads, exit, args,
                 net, attempted, listed, board, page_num, pin_num, existing_pins,
                 url, pins, cursor, new_pins, nsub, tasks, done_q, consumed,
                 num_errors, ghostV, codec>>

Running == {p \in DOMAIN tasks : tasks[p] = "running"}

\* faulty variant of pool_size: the pool is built with the default number
\* of threads whatever --threads says
pool_size_default(n) == 10

\* how many tasks the pool of ThreadPoolExecutor(num_threads) runs at once
pool_size(n) == n

\* a worker thread takes the oldest queued task
TaskStart(p) ==
  /\ pc \in {"submit", "collect"}
  /\ p \in DOMAIN tasks
  /\ tasks[p] = "queued"
  /\ \A i \in 1..nsub :
       (tasks[new_pins[i]] = "queued") =>
         (\E j \in 1..i : new_pins[j] = p)
  /\ Cardinality(Running) < pool_size(num_threads)
  /\ tasks' = [tasks EXCEPT ![p] = "running"]
  /\ net' = TRUE
  /\ UNCHANGED <<persistV, pc, refs, in_all, all_rest, num_threads, args,
                 exit, attempted, listed, board, page_num, pin_num, existing_pins,
                 url, pins, cursor, new_pins, nsub, early, done_q, consumed,
                 num_errors, ghostV, codec>>

\* download_pin, lines 211-230. fetch_error: urlopen or read fails, nothing
\* is written; write_error: the file was opened (created) and f.write fails
TaskFinish(p) ==
  /\ pc \in {"submit", "collect"}
  /\ p \in DOMAIN tasks
  /\ tasks[p] = "running"
  /\ \E res \in TaskOutcomes :
       /\ tasks' = [tasks EXCEPT ![p] = IF res = "ok" THEN "ok" ELSE "error"]
       /\ files' =
            IF res = "fetch_error" THEN files
            ELSE [files EXCEPT ![board] =
                    @ \cup {create_pin_filename(note[p], p, image_ext(p))}]
       /\ g_fsops' = g_fsops
            \cup {[op |-> "finish", pin |-> p, old |-> <<>>, new |-> <<>>]}
            \cup (IF res = "fetch_error" THEN {}
                  ELSE {[op |-> "write", pin |-> p, old |-> <<>>,
                         new |-> create_pin_filename(
                                   note[p], p, image_ext(p))]})
       /\ g_err_pages' = IF res = "ok" THEN g_err_pages
                         ELSE g_err_pages \cup {g_page}
  /\ done_q' = IF pc = "collect" THEN Append(done_q, p) ELSE done_q
  /\ g_fin' = Append(g_fin, <<p, pc = "collect">>)
  /\ UNCHANGED <<note, dirs, ckpt, clean, procV, board, page_num,
                 pin_num, existing_pins, url, pins, cursor, new_pins, nsub,
                 early, consumed, num_errors, g_status, g_dir, g_ckpt0, g_ref,
                 g_cons,
                 g_reqs, g_first, g_nums, g_page, g_page_ckpt, g_done_pages,
                 codec>>

\* faulty variant of drained: the loop over the futures is left at the
\* first failed one
drained_fail_fast(seen, newp) ==
  Cardinality(seen) = Len(newp) \/ \E p \in seen : tasks[p] = "error"

\* line 339: as_completed is exhausted once every future was yielded
drained(seen, newp) == Cardinality(seen) = Len(newp)

\* faulty variant of count_error: the counter is set, not incremented
count_error_set(n, status) == IF status = "error" THEN 1 ELSE n

\* lines 342-345: the error count after a future with this outcome
count_error(n, status) == IF status = "error" THEN n + 1 ELSE n

\* lines 339-349: the next completed future
Collect ==
  /\ pc = "collect"
  /\ \E p \in DOMAIN tasks :
       /\ p \notin consumed
       /\ IF early # {} THEN p \in early
          ELSE done_q # <<>> /\ p = Head(done_q)
       /\ early' = early \ {p}
       /\ done_q' = IF early # {} THEN done_q ELSE Tail(done_q)
       /\ num_errors' = count_error(num_errors, tasks[p])
       /\ pin_num' = pin_num + 1
       /\ consumed' = consumed \cup {p}
       /\ g_cons' = Append(g_cons, p)
       /\ pc' = IF drained(consumed', new_pins) THEN "page_end"
                ELSE "collect"
  /\ UNCHANGED <<persistV, refs, in_all, all_rest, num_threads, exit, args,
                 net, attempted, listed, board, page_num, existing_pins, url,
                 pins, cursor, new_pins, nsub, tasks, g_status, g_dir,
                 g_ckpt0, g_ref, g_fin, g_reqs, g_first, g_nums, g_page,
                 g_page_ckpt, g_err_pages, g_done_pages, g_fsops, codec>>

\* every download task of the current page was submitted and succeeded
AllTasksOk ==
  \A i \in 1..Len(new_pins) :
    new_pins[i] \in DOMAIN tasks /\ tasks[new_pins[i]] = "ok"

\* faulty variant of page_failed: download errors are counted but the run
\* goes on as after a page without errors
page_failed_ignored(newp, errors) == FALSE

\* faulty variant of next_checkpoint: the page counter is written before it
\* counts the page just finished
next_checkpoint_stale(cur, num) ==
  IF cur # None
  THEN [exists |-> TRUE, next_page_cursor |-> cur,
        num_complete_pages |-> num - 1]
  ELSE NoCkpt

\* faulty variant of next_checkpoint: the checkpoint is written after the
\* last page too and never deleted
next_checkpoint_kept(cur, num) ==
  [exists |-> TRUE, next_page_cursor |-> cur, num_complete_pages |-> num]

\* lines 330 and 351: does the run stop at this page
page_failed(newp, errors) == newp # <<>> /\ errors > 0

\* lines 358-370: the checkpoint after a page without errors
next_checkpoint(cur, num) ==
  IF cur # None
  THEN [exists |-> TRUE, next_page_cursor |-> cur, num_complete_pages |-> num]
  ELSE NoCkpt

\* lines 206-208: does the page iterator stop after this page
last_page(cur) == cur = None

\* lines 351-370 and 206-208: the page's outcome
PageEnd ==
  /\ pc = "page_end"
  /\ clean' = IF AllTasksOk THEN [clean EXCEPT ![board] = @ \cup {g_page}]
               ELSE clean
  /\ IF page_failed(new_pins, num_errors)
     THEN /\ Return
          /\ g_status' = "aborted"
          /\ UNCHANGED <<ckpt, g_done_pages>>
     ELSE /\ ckpt' = [ckpt EXCEPT ![board] = next_checkpoint(cursor, page_num)]
          /\ g_done_pages' = g_done_pages \cup {g_page}
          /\ IF last_page(cursor)
             THEN Return /\ g_status' = "done"
             ELSE /\ url' = cursor
                  /\ pc' = "fetch"
                  /\ UNCHANGED <<refs, in_all, all_rest, num_threads, exit,
                                 board, page_num, pin_num, existing_pins,
                                 pins, cursor, poolV, g_status>>
  /\ g_fin' = <<>>
  /\ g_cons' = <<>>
  /\ UNCHANGED <<note, dirs, files, args, net, attempted, listed, g_dir,
                 g_ckpt0, g_ref,
                 g_reqs, g_first, g_nums, g_page, g_page_ckpt, g_err_pages,
                 g_fsops, codec>>

\* between two runs of the tool a pin's note is edited at Pinterest
EditNote ==
  /\ pc = "off"
  /\ \E p \in EditablePins \cap AllPins :
       note' = [note EXCEPT ![p] = IF @ = InitialNote(p) THEN EditedNote(p)
                                   ELSE InitialNote(p)]
  /\ UNCHANGED <<dirs, files, ckpt, clean, procV, frameV, ghostV, codec>>

Next ==
  \/ StartProcess
  \/ FindToken
  \/ MainNext
  \/ AllList
  \/ AllNext
  \/ BoardInfo
  \/ FetchPage
  \/ Submit
  \/ BeginCollect
  \/ \E p \in AllPins : TaskStart(p)
  \/ \E p \in AllPins : TaskFinish(p)
  \/ Collect
  \/ PageEnd
  \/ EditNote

Spec == Init /\ [][Next]_vars

\* ------------------------------------------------------------------------
\* The codec on its own: create_pin_filename applied to a pin and an
\* extension, and the scanner's decoding applied to the result
\* ------------------------------------------------------------------------

MaxNoteLen == 51

IdLenStep == 18

MaxIdSteps == 15

CodecNoteChars ==
  {"A", " ", ".", "?", "_", "U+023A", "U+65E5", "U+3000", "U+1F600"}

CodecNotes ==
  {Rep(c, n) \o suf :
     c \in CodecNoteChars, n \in 0..MaxNoteLen,
     suf \in {<<>>, <<"/", " ", ".">>, <<".", "b">>}}

\* pin ids: digits, of the usual length and of lengths up to a whole path
\* component, and the lengths that leave the note just an ellipsis or less
CodecIdLens ==
  {IdLenStep * k : k \in 1..MaxIdSteps}
    \cup {PATH_BUDGET - ELLIPSIS_BYTE_LEN - 4, PATH_BUDGET - 4}

CodecIds == {Rep("1", n) : n \in CodecIdLens}

\* extensions: none (an image URL without one), the usual one, and one
\* with a second period
CodecExts == {<<>>, <<".", "j", "p", "g">>, <<".", "t", ".", "g">>}

InitCodec ==
  /\ MainInit
  /\ codec \in {[pc |-> "input", note |-> n, id |-> i, ext |-> e,
                 name |-> <<>>, pin_id |-> <<>>] :
                  n \in CodecNotes, i \in CodecIds, e \in CodecExts}

\* create_pin_filename(pin, image_ext)
CodecEncode ==
  /\ codec.pc = "input"
  /\ codec' = [codec EXCEPT
                 !.pc = "encoded",
                 !.name = create_pin_filename(codec.note, codec.id, codec.ext)]
  /\ UNCHANGED <<persistV, procV, frameV, ghostV>>

\* lines 172-173 of get_existing_pins on that name
CodecDecode ==
  /\ codec.pc = "encoded"
  /\ codec' = [codec EXCEPT !.pc = "decoded",
                            !.pin_id = decode_pin_id(codec.name)]
  /\ UNCHANGED <<persistV, procV, frameV, ghostV>>

NextCodec == CodecEncode \/ CodecDecode

SpecCodec == InitCodec /\ [][NextCodec]_vars

\* C10 as the specification states it: whatever the note, the id and the
\* extension, the name is at most 255 bytes long and ends with id + extension
C10_FilenameFits ==
  codec.pc # "input" =>
    /\ ByteLen(codec.name) <= PATH_BUDGET + 1
    /\ Len(codec.name) >= Len(codec.id) + Len(codec.ext)
    /\ SubSeq(codec.name, Len(codec.name) - Len(codec.id) - Len(codec.ext) + 1,
              Len(codec.name)) = codec.id \o codec.ext

\* ------------------------------------------------------------------------
\* Properties of download_board
\* ------------------------------------------------------------------------

\* the page of its board a pin is on
PageOfPin(p) == CHOOSE i \in 1..Len(Digit) : Digit[i] = p[2]

Ops(kind) == {o \in g_fsops : o.op = kind}

OpsOn(p) == {o \in g_fsops : o.pin = p /\ o.op # "finish"}

LastReq == g_reqs[Len(g_reqs)]

\* C1: once a download task of a page has ended in error, the checkpoint
\* file stays what it was when that page started, up to and after the end of
\* the run, that page is the last one the run requests, and the run does
\* not end as complete
C1_NoProgressOnPartialFailure ==
  g_err_pages # {} =>
    /\ ckpt[g_dir] = g_page_ckpt
    /\ g_err_pages = {LastReq}
    /\ g_status \in {"running", "aborted"}
    /\ pc # "fetch"
    /\ g_status = "running" => pc \in {"submit", "collect", "page_end"}

\* a run was aborted on page 2 and left the checkpoint of page 1 in place
C1_Witness ==
  /\ g_status = "aborted"
  /\ g_err_pages = {2}
  /\ ckpt[g_dir].exists
  /\ ckpt[g_dir].num_complete_pages = 1

\* C2, the state part: an existing checkpoint {c, k} means that each of the
\* first k pages was processed with all its download tasks succeeding and
\* that c is the cursor the API returned with page k
C2_CheckpointMeaning ==
  \A b \in Boards :
    ckpt[b].exists =>
      /\ ckpt[b].num_complete_pages \in 1..NumPages(b)
      /\ \A i \in 1..ckpt[b].num_complete_pages : i \in clean[b]
      /\ ckpt[b].next_page_cursor = CursorOfPage(b, ckpt[b].num_complete_pages)
      /\ ckpt[b].next_page_cursor # None

\* C2, the step part: the checkpoint is written only at the end of a page
\* all of whose download tasks have succeeded, and records that page
C2_WrittenAfterSuccess ==
  \A b \in Boards :
    (ckpt'[b] # ckpt[b] /\ ckpt'[b].exists) =>
      /\ pc = "page_end"
      /\ board = b
      /\ AllTasksOk
      /\ ckpt'[b].num_complete_pages = g_page

\* C2: the checkpoint invariant
C2_CheckpointInvariant ==
  [](C2_CheckpointMeaning) /\ [][C2_WrittenAfterSuccess]_vars

\* the checkpoint of a page was just written, every pin of the page having
\* been downloaded by this run, and the next page is about to be requested
C2_Witness ==
  /\ pc = "fetch"
  /\ ckpt["u/b1"].exists
  /\ ckpt["u/b1"].num_complete_pages = g_page
  /\ \A i \in 1..Len(pins) : \E o \in Ops("write") : o.pin = pins[i]

\* C3: a run that finds the checkpoint {c, k} sends its first page request
\* with cursor c, numbers the pages from k + 1 as the API counts them and
\* requests none of the pages 1..k; a run that finds none starts at page 1
\* without a cursor; a run that completes has requested exactly the pages
\* k+1..last and leaves no checkpoint
C3_ResumeFromCheckpoint ==
  LET k == IF g_ckpt0.exists THEN g_ckpt0.num_complete_pages ELSE 0
  IN  /\ g_reqs # <<>> =>
           /\ g_first = (IF g_ckpt0.exists THEN g_ckpt0.next_page_cursor
                         ELSE None)
           /\ g_reqs[1] = k + 1
           /\ \A i \in 1..Len(g_reqs) : g_reqs[i] > k
      /\ \A pr \in g_nums : pr[1] = pr[2]
      /\ g_status = "done" =>
           /\ g_reqs = [i \in 1..(NumPages(g_dir) - k) |-> k + i]
           /\ ~ckpt[g_dir].exists

\* the second run of the two-run scenario: it found the checkpoint of page
\* 1, requested page 2 only, downloaded its pin and completed
C3_Witness ==
  /\ g_status = "done"
  /\ g_ckpt0.exists
  /\ g_ckpt0.num_complete_pages = 1
  /\ g_reqs = <<2>>
  /\ \E o \in Ops("write") : PageOfPin(o.pin) = 2
  /\ ~ckpt[g_dir].exists

\* the last page that finished without errors in the current run
LastDone == CHOOSE i \in g_done_pages : \A j \in g_done_pages : i >= j

RunOver == g_status \in {"aborted", "done", "URLError", "JSONDecodeError"}

\* C4 as the specification states it: after a run whose last cleanly
\* finished page had a next cursor the checkpoint holds that cursor and page
\* number, after a run that finished the last page cleanly there is no
\* checkpoint, and between runs a checkpoint exists only while some page of
\* the board has never been processed without errors
C4_CheckpointLifetime ==
  /\ (RunOver /\ g_done_pages # {}) =>
       ckpt[g_dir] = next_checkpoint(CursorOfPage(g_dir, LastDone), LastDone)
  /\ \A b \in Boards :
       (g_status # "running" /\ ckpt[b].exists) =>
         clean[b] # 1..NumPages(b)

\* C4 amended: the same for the checkpoint after a run; and a checkpoint
\* file exists only while the board has pages after the page it records
\* (pages that an earlier, completed pass may already have processed
\* without errors)
C4_CheckpointLifetimeAmended ==
  /\ g_done_pages # {} =>
       ckpt[g_dir] = next_checkpoint(CursorOfPage(g_dir, LastDone), LastDone)
  /\ \A b \in Boards :
       ckpt[b].exists => ckpt[b].num_complete_pages < NumPages(b)

\* a board that an earlier pass completed has a checkpoint again after a
\* later run stopped behind page 1
C4_Witness ==
  /\ RunOver
  /\ ckpt["u/b1"].exists
  /\ clean["u/b1"] = 1..NumPages("u/b1")
  /\ g_done_pages = {1}

\* C5: when the outcome of a page is decided every task submitted for it has
\* run to completion, whatever its siblings did; every new pin of the page
\* was submitted; and once a task of a page has failed no task of a later
\* page is submitted in that run
C5_SiblingTasksComplete ==
  /\ pc = "page_end" =>
       \A i \in 1..Len(new_pins) :
         new_pins[i] \in DOMAIN tasks /\ tasks[new_pins[i]] \in Finished
  /\ (g_status # "running" \/ pc \in {"fetch", "page_end"}) =>
       \A o \in Ops("submit") :
         \E d \in Ops("finish") : d.pin = o.pin
  /\ \A e \in g_err_pages :
       \A o \in Ops("submit") : PageOfPin(o.pin) <= e

\* with one worker thread the first task of the page failed, and the
\* second one, started after that, still ran and wrote its file
C5_Witness ==
  /\ pc = "page_end"
  /\ num_threads = 1
  /\ Len(new_pins) = 2
  /\ tasks[new_pins[1]] = "error"
  /\ tasks[new_pins[2]] = "ok"
  /\ \E o \in Ops("write") : o.pin = new_pins[2]

\* C6 as the specification states it: a process that runs to the end of
\* main has attempted every board it was asked for, the boards of the
\* user's list included when "all" was requested and the list was fetched
C6_EveryBoardAttempted == exit = "ok" => listed \subseteq attempted

\* C7 as the specification states it: malformed JSON in an API response
\* does not terminate the process
C7_DecodeErrorSkipsBoard == exit # "JSONDecodeError"

\* the name create_pin_filename gives an indexed pin now
Recomputed(p) ==
  create_pin_filename(note[p], p, splitext(existing_pins[p])[2])

\* the files a board's directory holds when every pin was downloaded under
\* its current note
FullDirectory(b) ==
  {create_pin_filename(note[p], p, image_ext(p)) :
     p \in {q \in AllPins : q[1] = (IF b = "u/b1" THEN "1" ELSE "2")}}

\* C8, the state part: a pin of a processed page that is in the
\* existing-pin index under the very name recomputed for it is neither
\* renamed nor submitted for download nor written
C8_UnchangedPinUntouched ==
  \A i \in 1..Len(pins) :
    (pins[i] \in DOMAIN existing_pins
       /\ Recomputed(pins[i]) = existing_pins[pins[i]]) =>
      OpsOn(pins[i]) = {}

\* C8, the step part: no step changes the files of a directory that holds
\* every pin of the board under its current name (a step that changes a
\* directory starts from one that is not full)
C8_FullDirectoryKept ==
  \A b \in Boards : files'[b] # files[b] => files[b] # FullDirectory(b)

\* C8: idempotence for unchanged pins
C8_Idempotence ==
  [](C8_UnchangedPinUntouched) /\ [][C8_FullDirectoryKept]_vars

\* a run over the fully downloaded two-page board went through both pages
\* and performed no file operation
C8_Witness ==
  /\ g_status = "done"
  /\ g_dir = "u/b1"
  /\ g_reqs = [i \in 1..NumPages("u/b1") |-> i]
  /\ g_fsops = {}
  /\ files["u/b1"] = FullDirectory("u/b1")

RerunArgs ==
  {ArgsOf([boards |-> <<>>, batch_file |-> <<"u/b1", "">>], n,
          [access_token |-> "tok",
           token_files |-> <<"missing", "missing", "missing">>]) :
     n \in 1..MaxThreads}

RerunStart == StartProcess /\ args' \in RerunArgs

NextRerun ==
  \/ RerunStart
  \/ FindToken
  \/ MainNext
  \/ BoardInfo
  \/ FetchPage
  \/ Submit
  \/ BeginCollect
  \/ \E p \in AllPins : TaskStart(p)
  \/ \E p \in AllPins : TaskFinish(p)
  \/ Collect
  \/ PageEnd

\* the steps of the main thread but the page request, and the start of
\* the tool
MainSteps ==
  \/ RerunStart
  \/ FindToken
  \/ MainNext
  \/ BoardInfo
  \/ Submit
  \/ BeginCollect
  \/ Collect
  \/ PageEnd

\* the main thread and the workers keep running, the tool is started again
\* whenever it has ended, every page request gets its answer or fails and
\* every download ends. The last two are weak fairness of FetchPage and of
\* TaskFinish, said of the states: FetchPage is enabled exactly when pc is
\* "fetch" and leaves it, TaskFinish exactly when a task is running
SpecRerun ==
  /\ Init /\ [][NextRerun]_vars
  /\ WF_vars(MainSteps)
  /\ WF_vars(\E p \in AllPins : TaskStart(p))
  /\ []<>(pc # "fetch")
  /\ []<>(Running = {})

\* ------------------------------------------------------------------------
\* C11: the file name round trip
\* ------------------------------------------------------------------------

\* an extension as create_pin_filename documents it and as splitext or the
\* image type give it: a leading period and no other period
DottedExt(e) == e # <<>> /\ e[1] = "." /\ \A i \in 2..Len(e) : e[i] # "."

\* C11 as the specification states it: for every alphanumeric id, every note
\* and every extension, the decode step of get_existing_pins applied to the
\* name create_pin_filename returned yields the id
C11_RoundTrip ==
  (codec.pc = "decoded" /\ IsAlnum(codec.id)) => codec.pin_id = codec.id

\* C11 amended: for every alphanumeric id, every note and every extension
\* that is a period followed by characters other than a period, the decode
\* step applied to the name create_pin_filename returned yields the id,
\* which the scanner accepts as alphanumeric
C11_RoundTripDotted ==
  (codec.pc = "decoded" /\ IsAlnum(codec.id) /\ DottedExt(codec.ext)) =>
    (codec.pin_id = codec.id /\ IsAlnum(codec.pin_id))

\* a name whose note part holds an underscore and a period was decoded to
\* its id
C11_Witness ==
  /\ codec.pc = "decoded"
  /\ DottedExt(codec.ext)
  /\ codec.pin_id = codec.id
  /\ \E i, j \in 1..(Len(codec.name) - Len(codec.id) - Len(codec.ext) - 1) :
       codec.name[i] = "_" /\ codec.name[j] = "."

\* ------------------------------------------------------------------------
\* C12: configuration errors
\* ------------------------------------------------------------------------

\* the thread count is at least 1 and a board reference or a batch file is
\* given
UsageOk(a) == a.threads >= 1 /\ (a.boards # <<>> \/ a.batch_file # NoFile)

\* --access-token is given or a token file has a non-empty line
TokenFound(a) ==
  a.access_token # ""
    \/ \E i \in DOMAIN a.token_files : a.token_files[i] = "token"

\* the process has not issued a request, processed a board or touched a
\* board of the disk
NothingDone ==
  /\ ~net
  /\ attempted = {} /\ listed = {}
  /\ g_status = "none" /\ g_reqs = <<>> /\ g_fsops = {}

\* C12, the state part: a process started with a thread count below 1 or
\* without board reference and batch file never gets to the token lookup,
\* a process that ended with a usage or token message had such a command
\* line resp. no token, ended as a whole and had done nothing; and nothing
\* is done before the token was found
C12_ConfigErrorsState ==
  /\ pc = "token" => (UsageOk(args) /\ NothingDone)
  /\ exit = "usage_error" => (pc = "off" /\ ~UsageOk(args) /\ NothingDone)
  /\ exit = "no_token" =>
       (pc = "off" /\ UsageOk(args) /\ ~TokenFound(args) /\ NothingDone)

\* C12, the step part: the step after the token lookup goes on to the
\* boards only when a token was found, and ends the process otherwise
C12_TokenStep ==
  pc = "token" =>
    /\ pc' = "main_loop" => TokenFound(args)
    /\ ~TokenFound(args) => (pc' = "off" /\ exit' = "no_token")

\* C12: configuration errors end the process before any network request and
\* before any board is processed
C12_ConfigErrorsFailFast ==
  [](C12_ConfigErrorsState) /\ [][C12_TokenStep]_vars

\* a process with a valid thread count and a board reference ended for want
\* of a token, no --access-token being given and the token files being
\* missing or without a non-empty line
C12_Witness ==
  /\ exit = "no_token"
  /\ args.threads >= 1
  /\ args.access_token = ""
  /\ \E i \in 1..3 : args.token_files[i] = "empty"

\* ------------------------------------------------------------------------
\* C13: the directory of a board
\* ------------------------------------------------------------------------

\* the references that are bare board ids
BareIds == {"id1", "id2"}

\* C13: once the metadata of a board is there, the directory of the run,
\* whose checkpoint and files the run reads, is the path of the board's
\* canonical URL when download_board was called with a bare id, and the
\* reference itself when it was called with a user/board path
C13_DirectoryOfBoard ==
  g_status \in {"running", "aborted", "done"} =>
    LET d == IF g_ref \in BareIds
             THEN UrlPath(board_info(g_ref).url)
             ELSE g_ref
    IN  /\ g_dir = d
        /\ d \in dirs
        /\ d \in Boards
        /\ pc \in {"fetch", "submit", "collect", "page_end"} =>
             /\ board = d
             /\ g_done_pages = {} => g_ckpt0 = ckpt[d]
             /\ g_reqs = <<>> =>
                  \A p \in DOMAIN existing_pins : existing_pins[p] \in files[d]

\* a run called with the bare id of a board resumed from the checkpoint
\* beside the directory named after the board's URL path
C13_Witness ==
  /\ g_ref = "id1"
  /\ g_dir = "u/b1"
  /\ g_ckpt0.exists
  /\ g_status = "done"

\* ------------------------------------------------------------------------
\* C14: pages are processed one after the other
\* ------------------------------------------------------------------------

\* the download tasks submitted and not finished
InFlight == {p \in DOMAIN tasks : tasks[p] \in {"queued", "running"}}

\* C14, the state part: the tasks in flight are tasks of the page requested
\* last, and none is in flight when the orchestrating thread is outside the
\* executor block: about to request a page, deciding a page's outcome, or
\* outside download_board
C14_OnePageInFlight ==
  /\ \A p \in InFlight :
       /\ g_reqs # <<>>
       /\ PageOfPin(p) = LastReq
       /\ \E i \in 1..Len(pins) : pins[i] = p
  /\ pc \notin {"submit", "collect"} => InFlight = {}

\* C14, the step part: a page request is issued from a state in which every
\* task submitted so far in the run has finished
C14_RequestAfterDrain ==
  Len(g_reqs') > Len(g_reqs) =>
    /\ InFlight = {}
    /\ \A o \in Ops("submit") :
         /\ PageOfPin(o.pin) < PageOfCursor(url)
         /\ \E d \in Ops("finish") : d.pin = o.pin

\* C14: no cross-page concurrency
C14_NoCrossPageConcurrency ==
  [](C14_OnePageInFlight) /\ [][C14_RequestAfterDrain]_vars

\* two tasks of the first page ran together and finished, the second page
\* was requested after that and a task of it is running
C14_Witness ==
  /\ g_reqs = <<1, 2>>
  /\ \E p \in InFlight : tasks[p] = "running" /\ PageOfPin(p) = 2
  /\ Cardinality({o \in Ops("finish") : PageOfPin(o.pin) = 1}) = 2

\* ------------------------------------------------------------------------
\* C15: error and progress accounting
\* ------------------------------------------------------------------------

RECURSIVE PinsOnPages(_, _)
\* the number of pins on the pages a sequence of requests returned
PinsOnPages(b, reqs) ==
  IF reqs = <<>> THEN 0
  ELSE Len(PinsOnPage(b, Head(reqs))) + PinsOnPages(b, Tail(reqs))

\* the pins in the order their tasks finished: all of them, and those that
\* finished after the loop over the futures had started
FinishOrder == [i \in 1..Len(g_fin) |-> g_fin[i][1]]

LateFinishOrder ==
  LET late == SelectSeq(g_fin, LAMBDA f : f[2])
  IN  [i \in 1..Len(late) |-> late[i][1]]

IsPrefix(s, t) == Len(s) <= Len(t) /\ s = SubSeq(t, 1, Len(s))

\* every completion consumed so far was consumed once and is one of a
\* finished task of the page, the error count is the number of failed
\* tasks among them, and the progress counter stands at the pins of the
\* earlier pages, the existing pins of this page and the completions
\* consumed
Accounted ==
  /\ \A i, j \in 1..Len(g_cons) : g_cons[i] = g_cons[j] => i = j
  /\ {g_cons[i] : i \in 1..Len(g_cons)} = consumed
  /\ \A p \in consumed :
       /\ \E i \in 1..Len(new_pins) : new_pins[i] = p
       /\ tasks[p] \in {"ok", "error"}
  /\ num_errors = Cardinality({p \in consumed : tasks[p] = "error"})
  /\ pin_num =
       g_ckpt0.num_complete_pages * PINS_PER_PAGE
         + PinsOnPages(g_dir, g_reqs) - Len(new_pins) + Len(g_cons)
  /\ pc = "page_end" =>
       /\ Len(g_cons) = Len(new_pins)
       /\ num_errors =
            Cardinality({i \in 1..Len(new_pins) : tasks[new_pins[i]] = "error"})

\* C15 as the specification states it: the completions of a page are
\* consumed in completion order, each once, and when the page has drained
\* the error count and the progress counter are exact
C15_ExactAccounting ==
  pc \in {"collect", "page_end"} =>
    (Accounted /\ IsPrefix(g_cons, FinishOrder))

\* C15 amended: the completions of a page are consumed each once, those of
\* the tasks already finished when the loop over the futures starts first
\* and in no particular order, the others after them in completion order;
\* and when the page has drained the error count and the progress counter
\* are exact
C15_ExactAccountingAmended ==
  pc \in {"collect", "page_end"} =>
    /\ Accounted
    /\ LET late == {LateFinishOrder[i] : i \in 1..Len(LateFinishOrder)}
       IN  /\ IsPrefix(SelectSeq(g_cons, LAMBDA p : p \in late),
                       LateFinishOrder)
           /\ \A i, j \in 1..Len(g_cons) :
                (g_cons[i] \in late /\ g_cons[j] \notin late) => j < i

\* with two workers both tasks of a page failed, finishing after the loop
\* over the futures had started and in the reverse order of submission,
\* and were consumed in that order
C15_Witness ==
  /\ pc = "page_end"
  /\ num_threads = 2
  /\ Len(new_pins) = 2
  /\ num_errors = 2
  /\ LateFinishOrder = <<new_pins[2], new_pins[1]>>
  /\ g_cons = LateFinishOrder

\* ------------------------------------------------------------------------
\* C16: bounded parallelism
\* ------------------------------------------------------------------------

\* C16: while a board is processed the thread count is at least 1 and at
\* most that many download tasks are running; a submitted task that is not
\* running or finished is waiting in the pool's queue
C16_BoundedParallelism ==
  pc \notin {"off", "token"} =>
    /\ num_threads >= 1
    /\ Cardinality(Running) <= num_threads
    /\ \A p \in DOMAIN tasks :
         tasks[p] \in {"queued", "running", "ok", "error"}

\* with one thread and two new pins on the page, one task is running and
\* the other one, submitted too, waits
C16_Witness ==
  /\ num_threads = 1
  /\ Len(new_pins) = 2
  /\ nsub = 2
  /\ tasks[new_pins[1]] = "running"
  /\ tasks[new_pins[2]] = "queued"

\* ------------------------------------------------------------------------
\* C17: failed pins
\* ------------------------------------------------------------------------

\* the files of the directory of the run that decode to the pin's id, which
\* the scanner of the next run takes for the pin
FilesOf(p) ==
  {f \in files[board] : decode_pin_id(f) = p /\ IsAlnum(decode_pin_id(f))}

\* C17 as the specification states it: a pin whose download task ended in
\* error has no file in the board directory that decodes to its id (the
\* next run finds it new and downloads it again), and a pin whose task
\* succeeded has one (the next run finds it existing)
C17_FailedPinsRetried ==
  pc \in {"submit", "collect", "page_end"} =>
    \A p \in DOMAIN tasks :
      /\ tasks[p] = "error" => FilesOf(p) = {}
      /\ tasks[p] = "ok" => FilesOf(p) # {}

\* ------------------------------------------------------------------------
\* C18: what a checkpoint says about the directory
\* ------------------------------------------------------------------------

\* a file of the directory decodes to the pin's id
HasFile(b, p) ==
  \E f \in files[b] : decode_pin_id(f) = p /\ IsAlnum(decode_pin_id(f))

FailStep ==
  \/ g_status' \in {"URLError", "JSONDecodeError"} /\ g_status' # g_status
  \/ \E p \in DOMAIN tasks :
       /\ tasks[p] = "running"
       /\ p \in DOMAIN tasks' /\ tasks'[p] = "error"

\* the board is complete: a run has ended on the last page, no checkpoint
\* file is there and every pin has a file
Complete(b) ==
  /\ g_status = "done" /\ g_dir = b
  /\ ~ckpt[b].exists
  /\ \A p \in AllPins : p[1] = "1" => HasFile(b, p)

\* no step replaces a checkpoint by one with fewer complete pages
CkptMonotone ==
  \A b \in Boards :
    (ckpt[b].exists /\ ckpt'[b].exists) =>
      ckpt'[b].num_complete_pages >= ckpt[b].num_complete_pages

\* the download of the pin failed after its file was opened for writing:
\* the file is there and does not hold the image
WriteFailed(p) ==
  /\ pc \in {"submit", "collect", "page_end"}
  /\ p \in DOMAIN tasks
  /\ tasks[p] = "error"
  /\ HasFile(board, p)

\* a download of the pin has succeeded
Downloaded(p) ==
  /\ pc \in {"submit", "collect", "page_end"}
  /\ p \in DOMAIN tasks
  /\ tasks[p] = "ok"

\* every run of download_board ends
C19_RunsEnd == (g_status = "running") ~> (g_status # "running")

\* when from some point on no API call and no download fails, a run ends on
\* the last page with no checkpoint file and a file for every pin
C19_FilesComplete == (<>[][~FailStep]_vars) => <>Complete("u/b1")

\* when from some point on no API call and no download fails, every pin
\* whose file a failed download left without the image is downloaded again
C19_ImagesComplete ==
  (<>[][~FailStep]_vars) =>
    \A p \in AllPins : WriteFailed(p) ~> Downloaded(p)

\* the number of complete pages of the checkpoint never decreases from one
\* checkpoint write to the next
C19_NeverDecreases == [][CkptMonotone]_vars

\* C19 as the specification states it: every run of download_board ends;
\* when the tool is run again and again on the unchanged board and from
\* some run on no API call and no download fails, the board gets complete,
\* that is a run ends with no checkpoint file and every pin on disk, its
\* image whole; and the recorded number of complete pages never decreases
C19_EventualCompletion ==
  /\ C19_RunsEnd
  /\ C19_FilesComplete
  /\ C19_ImagesComplete
  /\ C19_NeverDecreases

====
